---------------------------- MODULE Spec2Model ----------------------------
(***************************************************************************)
(* The lexical analyser of pdf4py (pdfpy/_lexer.py, pdfpy/_charset.py):    *)
(* the Seekable byte cursor, the Lexer tokenizer, push-back, positional    *)
(* backtracking, the deferred stream reader and the reverse anchor search. *)
(* Bytes are the integers 0..255; Python's 0-based buffer index i is       *)
(* src[i + 1] here.                                                        *)
(***************************************************************************)
EXTENDS Integers, Sequences, FiniteSets, TLC

VARIABLES
    src,            \* Seekable.__source: the immutable byte buffer
    pos,            \* Seekable.__pos
    current,        \* Lexer.__current: the lookahead byte
    ended,          \* Lexer.__ended
    currentLexeme,  \* Lexer.__currentLexeme
    lexemesBuffer,  \* Lexer.__lexemesBuffer (push-back list)
    movesHistory,   \* Lexer.__movesHistory: sequence of <<lexeme, position>>
    alive,          \* FALSE when Lexer.__init__ raised (no object exists) or
                    \* a call never returns
    readers,        \* origins of the read_stream closures handed to the caller
    last,           \* the last call: [op, arg, exc, lex, n, data]
    pre,            \* the lexer's fields immediately before the last call
    pre2,           \* the lexer's fields immediately before the call before it
    prev,           \* the call before the last one
    steps           \* number of calls made so far

vars == <<src, pos, current, ended, currentLexeme, lexemesBuffer, movesHistory,
          alive, readers, last, pre, pre2, prev, steps>>

(***************************************************************************)
(* Bounds of the model.                                                    *)
(***************************************************************************)
MaxFrags   == 2   \* fragments concatenated into a generated buffer
MaxSteps   == 3   \* calls made on one lexer
MaxPending == 2   \* put_back is not called beyond this many pending lexemes
MaxHistory == 2   \* move_at_position is not called beyond this history depth
MaxReadLen == 3   \* largest length handed to a deferred stream reader
ContextSize == 4  \* the contextSize constructor argument
MaxSeekOff == 4   \* largest offset, in absolute value, handed to Seekable.seek
MaxStrLen  == 5   \* bytes between the outer parentheses of a generated string literal

(***************************************************************************)
(* pdfpy/_charset.py                                                       *)
(***************************************************************************)
LINE_FEED == 10
HORIZONTAL_TAB == 9
FORM_FEED == 12
BACKSPACE == 8
CARRIAGE_RETURN == 13
OPEN_PARENTHESIS == 40
CLOSE_PARENTHESIS == 41
OPEN_ANGLE_BRACKET == 60
CLOSE_ANGLE_BRACKET == 62
OPEN_SQUARE_BRACKET == 91
CLOSE_SQUARE_BRACKET == 93
FORWARD_SLASH == 47
BACK_SLASH == 92
OPEN_CURLY_BRACKET == 123
CLOSE_CURLY_BRAKET == 125
PERCENTAGE == 37
POINT == 46
PLUS == 43
MINUS == 45
KEYWORD_REFERENCE == 82
FREE_ENTRY_KEYWORD == 102
INUSE_ENTRY_KEYWORD == 110
NUMBER_SIGN == 35
SPACE == 32

SINGLETONS ==
    {OPEN_CURLY_BRACKET, CLOSE_CURLY_BRAKET, OPEN_SQUARE_BRACKET,
     CLOSE_SQUARE_BRACKET, INUSE_ENTRY_KEYWORD, FREE_ENTRY_KEYWORD,
     KEYWORD_REFERENCE}

KW_dictopen == <<60, 60>>
KW_dictclose == <<62, 62>>
KW_endobj == <<101, 110, 100, 111, 98, 106>>
KW_obj == <<111, 98, 106>>
KW_trailer == <<116, 114, 97, 105, 108, 101, 114>>
KW_xref == <<120, 114, 101, 102>>
KW_null == <<110, 117, 108, 108>>
KW_startxref == <<115, 116, 97, 114, 116, 120, 114, 101, 102>>
KW_endstream == <<101, 110, 100, 115, 116, 114, 101, 97, 109>>
LIT_true == <<116, 114, 117, 101>>
LIT_false == <<102, 97, 108, 115, 101>>
LIT_stream == <<115, 116, 114, 101, 97, 109>>

\* the list KEYWORDS, in its order
KEYWORDS ==
    <<KW_dictopen, KW_dictclose, KW_endobj, KW_obj, KW_trailer, KW_xref,
      KW_null, KW_startxref, KW_endstream>>

is_digit(x) == x >= 48 /\ x < 58

is_hex_digit(x) ==
    (x >= 48 /\ x < 58) \/ (x >= 65 /\ x < 71) \/ (x >= 97 /\ x < 103)

\* hex_to_number: -1 stands for the ValueError it raises
hex_to_number(x) ==
    IF x >= 48 /\ x < 58 THEN x - 48
    ELSE IF x >= 65 /\ x < 71 THEN x - 55
    ELSE IF x >= 97 /\ x < 103 THEN x - 87
    ELSE -1

\* STRING_ESCAPE_SEQUENCES.get(x, x)
STRING_ESCAPE_SEQUENCES(x) ==
    CASE x = 110 -> LINE_FEED
      [] x = 114 -> CARRIAGE_RETURN
      [] x = 98  -> BACKSPACE
      [] x = 116 -> HORIZONTAL_TAB
      [] x = 102 -> FORM_FEED
      [] OTHER   -> x

BLANKS == {0, 9, 10, 12, 13, 32}

(***************************************************************************)
(* Lexemes.  Every lexeme is [kind, value] with value a tuple of integers: *)
(* int <<n>>, real <<mantissa, decimals>>, bool <<0 or 1>>, name and str   *)
(* the code points of the text, kw and hex the bytes, single <<byte>>,     *)
(* stream <<origin of the closure>>; None is the Python None.              *)
(***************************************************************************)
Lexeme(k, v) == [kind |-> k, value |-> v]
None == Lexeme("None", <<>>)

Min(a, b) == IF a < b THEN a ELSE b
Max(a, b) == IF a > b THEN a ELSE b

(***************************************************************************)
(* Seekable                                                                *)
(***************************************************************************)
length == Len(src)

\* Seekable.seek without the clamp at the end of the buffer
seek_without_upper_clamp(p, off, whence) ==
    LET q == IF whence = 0 THEN off
             ELSE IF whence = 1 THEN p + off
             ELSE length + off
    IN  IF q < 0 THEN 0 ELSE q

\* Seekable.seek: the position after seek(off, whence) from position p
Seek(p, off, whence) ==
    LET q == IF whence = 0 THEN off
             ELSE IF whence = 1 THEN p + off
             ELSE length + off
    IN  IF q < 0 THEN 0 ELSE IF q > length THEN length ELSE q

\* Seekable.read: the bytes read(n) returns at position p and the position after
Read(p, n) ==
    IF p = length THEN [data |-> <<>>, pos |-> p]
    ELSE IF n = 1 THEN [data |-> <<src[p + 1]>>, pos |-> p + 1]
    ELSE LET m   == IF n <= 0 THEN length ELSE n
             val == SubSeq(src, p + 1, Min(p + m, length))
         IN  [data |-> val, pos |-> p + Len(val)]

(***************************************************************************)
(* The cursor of the lexer is threaded through the tokenizer as a record   *)
(* c = [pos, cur, ended]; every step returns the cursor it leaves and the  *)
(* exception it raises ("none" when it returns normally).  Then(r, F) is   *)
(* Python's sequencing: an exception raised by r ends the computation.     *)
(***************************************************************************)
Cursor(p, b, e) == [pos |-> p, cur |-> b, ended |-> e]

Ret(c, v) == [c |-> c, exc |-> "none", val |-> v, errpos |-> -1]
Raise(c, e) == [c |-> c, exc |-> e, val |-> <<>>, errpos |-> -1]
Then(r, F(_)) == IF r.exc # "none" THEN r ELSE F(r)

\* Lexer.__advance, after self.__source.read(1) returned r
advance_read(c, r) ==
    IF r.data = <<>>
    THEN Ret(Cursor(r.pos, SPACE, TRUE), <<>>)
    ELSE Ret(Cursor(r.pos, r.data[1], c.ended), <<>>)

\* Lexer.__advance
advance(c) ==
    IF c.ended THEN Raise(c, "StopIteration")
    ELSE advance_read(c, Read(c.pos, 1))

\* get_context reporting where the window starts as the error position
get_context_read_window_start(errorPosition, contextStart, r) ==
    [context |-> r.data, start |-> contextStart,
     errorPosition |-> contextStart, pos |-> Seek(r.pos, errorPosition, 0)]

\* get_context without the final seek back to errorPosition
get_context_read_without_restore(errorPosition, contextStart, r) ==
    [context |-> r.data, start |-> contextStart,
     errorPosition |-> errorPosition, pos |-> r.pos]

\* Lexer.get_context, after the window r was read from contextStart
get_context_read(errorPosition, contextStart, r) ==
    [context |-> r.data, start |-> contextStart,
     errorPosition |-> errorPosition, pos |-> Seek(r.pos, errorPosition, 0)]

\* Lexer.get_context: the window, and the position it leaves the cursor at
get_context(p) ==
    get_context_read(p, Max(p - ContextSize \div 2, 0),
                     Read(Seek(p, Max(p - ContextSize \div 2, 0), 0),
                          ContextSize))

\* Lexer.__raise_lexer_error, with g the context it collected
raise_with_context(c, g) ==
    [c |-> Cursor(g.pos, c.cur, c.ended), exc |-> "PDFLexicalError",
     val |-> <<>>, errpos |-> g.errorPosition]

\* Lexer.__raise_lexer_error
raise_lexer_error(c) == raise_with_context(c, get_context(c.pos))

(***************************************************************************)
(* Tokenizer helpers                                                       *)
(***************************************************************************)
\* the inner loop of __remove_blanks: while current != LINE_FEED: advance()
RECURSIVE skip_comment(_)
skip_comment(c) ==
    IF c.cur # LINE_FEED
    THEN Then(advance(c), LAMBDA a : skip_comment(a.c))
    ELSE Ret(c, <<>>)

\* __remove_blanks without its comment branch: only blank bytes are skipped
RECURSIVE remove_blanks_without_comments(_)
remove_blanks_without_comments(c) ==
    IF c.cur \in BLANKS
    THEN Then(advance(c), LAMBDA a : remove_blanks_without_comments(a.c))
    ELSE Ret(c, <<>>)

\* Lexer.__remove_blanks
RECURSIVE remove_blanks(_)
remove_blanks(c) ==
    IF c.cur \in BLANKS
    THEN Then(advance(c), LAMBDA a : remove_blanks(a.c))
    ELSE IF c.cur = PERCENTAGE
    THEN Then(skip_comment(c),
              LAMBDA s : Then(advance(s.c), LAMBDA a : remove_blanks(a.c)))
    ELSE Ret(c, <<>>)

\* Lexer.__peek(k): the byte, or -1 for None; the position is restored
peek(c, k) ==
    IF c.pos + (k - 1) >= length THEN -1
    ELSE Read(Seek(c.pos, k - 1, 1), 1).data[1]

\* for i in range(n): self.__advance()
RECURSIVE advance_n(_, _)
advance_n(c, n) ==
    IF n = 0 THEN Ret(c, <<>>)
    ELSE Then(advance(c), LAMBDA a : advance_n(a.c, n - 1))

\* Lexer.__parse_literal: val is <<1>> when lit was matched and consumed
parse_literal(c, lit) ==
    IF \A i \in 1..Len(lit) : peek(c, i - 1) = lit[i]
    THEN Then(advance_n(c, Len(lit)), LAMBDA a : Ret(a.c, <<1>>))
    ELSE Ret(c, <<>>)

\* Lexer.__match_keyword, trying KEYWORDS from index i on: val is the keyword
RECURSIVE match_keyword_from(_, _)
keyword_tried(c, i, r) ==
    IF r.exc # "none" THEN r
    ELSE IF r.val # <<>> THEN Ret(r.c, KEYWORDS[i])
    ELSE match_keyword_from(c, i + 1)

match_keyword_from(c, i) ==
    IF i > Len(KEYWORDS) THEN Ret(c, <<>>)
    ELSE keyword_tried(c, i, parse_literal(c, KEYWORDS[i]))

match_keyword(c) == match_keyword_from(c, 1)

(***************************************************************************)
(* Text decoding (bytes.decode of the standard library); <<-1>> stands for *)
(* UnicodeDecodeError.                                                     *)
(***************************************************************************)
IsCont(b) == b >= 128 /\ b <= 191

\* the length of the well-formed UTF-8 sequence at the head of b, 0 if none
utf8_len(b) ==
    IF b[1] < 128 THEN 1
    ELSE IF b[1] >= 194 /\ b[1] <= 223 /\ Len(b) >= 2 /\ IsCont(b[2]) THEN 2
    ELSE IF b[1] >= 224 /\ b[1] <= 239 /\ Len(b) >= 3 /\ IsCont(b[2])
            /\ IsCont(b[3]) /\ (b[1] # 224 \/ b[2] >= 160)
            /\ (b[1] # 237 \/ b[2] <= 159) THEN 3
    ELSE IF b[1] >= 240 /\ b[1] <= 244 /\ Len(b) >= 4 /\ IsCont(b[2])
            /\ IsCont(b[3]) /\ IsCont(b[4]) /\ (b[1] # 240 \/ b[2] >= 144)
            /\ (b[1] # 244 \/ b[2] <= 143) THEN 4
    ELSE 0

\* the code point of the nx-byte UTF-8 sequence at the head of b
utf8_cp(b, nx) ==
    CASE nx = 1 -> b[1]
      [] nx = 2 -> (b[1] - 192) * 64 + (b[2] - 128)
      [] nx = 3 -> (b[1] - 224) * 4096 + (b[2] - 128) * 64 + (b[3] - 128)
      [] OTHER  -> (b[1] - 240) * 262144 + (b[2] - 128) * 4096
                   + (b[3] - 128) * 64 + (b[4] - 128)

decode_join(cp, rest) == IF rest = <<-1>> THEN <<-1>> ELSE <<cp>> \o rest

\* buffer.decode('utf-8')
RECURSIVE decode_utf8(_)
utf8_step(b, nx) ==
    IF nx = 0 THEN <<-1>>
    ELSE decode_join(utf8_cp(b, nx), decode_utf8(SubSeq(b, nx + 1, Len(b))))

decode_utf8(b) == IF b = <<>> THEN <<>> ELSE utf8_step(b, utf8_len(b))

\* the code page 1252 table for 0x80..0x9F; -1 where the byte is undefined
CP1252_HIGH ==
    <<8364, -1, 8218, 402, 8222, 8230, 8224, 8225, 710, 8240, 352, 8249, 338,
      -1, 381, -1, -1, 8216, 8217, 8220, 8221, 8226, 8211, 8212, 732, 8482,
      353, 8250, 339, -1, 382, 376>>

cp1252_cp(h) == IF h >= 128 /\ h <= 159 THEN CP1252_HIGH[h - 127] ELSE h

\* buffer.decode('cp1252')
RECURSIVE decode_cp1252(_)
decode_cp1252(b) ==
    IF b = <<>> THEN <<>>
    ELSE IF cp1252_cp(b[1]) = -1 THEN <<-1>>
    ELSE decode_join(cp1252_cp(b[1]), decode_cp1252(Tail(b)))

\* buffer.decode('ascii')
decode_ascii(b) == IF \E i \in 1..Len(b) : b[i] >= 128 THEN <<-1>> ELSE b

\* the value of a run of decimal digit bytes (0 for the empty run)
RECURSIVE digits_value(_)
digits_value(d) ==
    IF d = <<>> THEN 0
    ELSE digits_value(SubSeq(d, 1, Len(d) - 1)) * 10 + (d[Len(d)] - 48)

\* the fraction digits without their trailing zeros
RECURSIVE strip_zeros(_)
strip_zeros(d) ==
    IF d # <<>> /\ d[Len(d)] = 48 THEN strip_zeros(SubSeq(d, 1, Len(d) - 1))
    ELSE d

RECURSIVE pow10(_)
pow10(n) == IF n = 0 THEN 1 ELSE 10 * pow10(n - 1)

(***************************************************************************)
(* The lexeme parsers.  Each returns the cursor it leaves, the exception   *)
(* it raises and, in val, the value tuple of the lexeme.                   *)
(***************************************************************************)
\* the octal-digit loop of __parse_string_literal: val is the digits read
RECURSIVE octal_digits(_, _)
octal_digits(c, digits) ==
    IF is_digit(c.cur) /\ Len(digits) < 3
    THEN Then(advance(c), LAMBDA a : octal_digits(a.c, Append(digits, c.cur)))
    ELSE Ret(c, digits)

\* sum(int(x) << 3*(len(digits) - i - 1) for i, x in enumerate(digits))
RECURSIVE char_code(_)
char_code(digits) ==
    IF digits = <<>> THEN 0
    ELSE char_code(SubSeq(digits, 1, Len(digits) - 1)) * 8
         + (digits[Len(digits)] - 48)

\* openParentheses when an inner ( is not counted
paren_depth_falling_only(b, openParentheses) ==
    IF b = CLOSE_PARENTHESIS THEN openParentheses - 1 ELSE openParentheses

\* openParentheses after the byte b outside an escape
paren_depth(b, openParentheses) ==
    IF b = OPEN_PARENTHESIS THEN openParentheses + 1
    ELSE IF b = CLOSE_PARENTHESIS THEN openParentheses - 1
    ELSE openParentheses

\* the while loop of __parse_string_literal: val is the buffer
RECURSIVE string_loop(_, _, _)
\* buffer.append(charCode) of the octal escape: ValueError above 255
string_octal(c, openParentheses, buffer, charCode) ==
    IF charCode > 255 THEN Raise(c, "ValueError")
    ELSE string_loop(c, openParentheses, Append(buffer, charCode))

\* the escape branch, c being the cursor after the backslash
string_escape(c, openParentheses, buffer) ==
    IF ~is_digit(c.cur)
    THEN Then(advance(c),
              LAMBDA b : string_loop(b.c, openParentheses,
                             Append(buffer, STRING_ESCAPE_SEQUENCES(c.cur))))
    ELSE Then(octal_digits(c, <<>>),
              LAMBDA d : string_octal(d.c, openParentheses, buffer,
                                      char_code(d.val)))

string_loop(c, openParentheses, buffer) ==
    IF openParentheses > 0
    THEN IF c.cur = BACK_SLASH
         THEN Then(advance(c),
                   LAMBDA a : string_escape(a.c, openParentheses, buffer))
         ELSE Then(advance(c),
                   LAMBDA a : string_loop(a.c,
                                  paren_depth(c.cur, openParentheses),
                                  Append(buffer, c.cur)))
    ELSE Ret(c, buffer)

\* the except branch: buffer.decode('cp1252') gave w
decode_fallback(c, w) ==
    IF w # <<-1>> THEN Ret(c, w) ELSE Raise(c, "UnicodeDecodeError")

\* try buffer.decode('utf-8') (which gave u) except UnicodeDecodeError
decode_text(c, buffer, u) ==
    IF u # <<-1>> THEN Ret(c, u)
    ELSE decode_fallback(c, decode_cp1252(buffer))

\* buffer.pop() and the decoding that end __parse_string_literal
string_result(c, buffer) == decode_text(c, buffer, decode_utf8(buffer))

\* Lexer.__parse_string_literal
parse_string_literal(c) ==
    Then(advance(c),
         LAMBDA a : Then(string_loop(a.c, 1, <<>>),
                         LAMBDA r : string_result(r.c,
                                        SubSeq(r.val, 1, Len(r.val) - 1))))

\* the while loop of __parse_hexadecimal_string: val is the buffer
RECURSIVE hex_loop(_, _)
hex_loop(c, buffer) ==
    IF c.cur \in BLANKS
    THEN Then(advance(c), LAMBDA a : hex_loop(a.c, buffer))
    ELSE IF ~is_hex_digit(c.cur) THEN Ret(c, buffer)
    ELSE Then(advance(c), LAMBDA a : hex_loop(a.c, Append(buffer, c.cur)))

\* the end of __parse_hexadecimal_string, the loop having left c and buffer
hex_close(c, buffer) ==
    IF c.cur # CLOSE_ANGLE_BRACKET THEN raise_lexer_error(c)
    ELSE Then(advance(c), LAMBDA b : Ret(b.c, buffer))

\* Lexer.__parse_hexadecimal_string
parse_hexadecimal_string(c) ==
    Then(advance(c),
         LAMBDA a : Then(hex_loop(a.c, <<>>),
                         LAMBDA r : hex_close(r.c, r.val)))

\* the while loop of __parse_name: val is the buffer
RECURSIVE name_loop(_, _)
\* the second hex digit of a #xx escape, c.cur being that digit
name_escape2(c, hexDigit1, buffer) ==
    IF hex_to_number(c.cur) = -1 THEN raise_lexer_error(c)
    ELSE Then(advance(c),
              LAMBDA a : name_loop(a.c,
                             Append(buffer,
                                    hexDigit1 * 16 + hex_to_number(c.cur))))

\* the first hex digit of a #xx escape, c.cur being that digit
name_escape1(c, buffer) ==
    IF hex_to_number(c.cur) = -1 THEN raise_lexer_error(c)
    ELSE Then(advance(c),
              LAMBDA a : name_escape2(a.c, hex_to_number(c.cur), buffer))

name_loop(c, buffer) ==
    IF 33 <= c.cur /\ c.cur <= 126
    THEN IF c.cur = NUMBER_SIGN
         THEN Then(advance(c), LAMBDA a : name_escape1(a.c, buffer))
         ELSE Then(advance(c),
                   LAMBDA a : name_loop(a.c, Append(buffer, c.cur)))
    ELSE Ret(c, buffer)

\* PDFName(buffer.decode('ascii'))
name_result(c, text) ==
    IF text = <<-1>> THEN Raise(c, "UnicodeDecodeError") ELSE Ret(c, text)

\* Lexer.__parse_name
parse_name(c) ==
    Then(advance(c),
         LAMBDA a : Then(name_loop(a.c, <<>>),
                         LAMBDA r : name_result(r.c, decode_ascii(r.val))))

\* while is_digit(current): buff.append(current); advance()   (val: the digits)
RECURSIVE digit_run(_, _)
digit_run(c, digits) ==
    IF is_digit(c.cur)
    THEN Then(advance(c), LAMBDA a : digit_run(a.c, Append(digits, c.cur)))
    ELSE Ret(c, digits)

\* int(buff.decode('utf-8')): val is <<n>>
to_int(c, sgn, digits) ==
    IF digits = <<>> THEN Raise(c, "ValueError")
    ELSE Ret(c, <<sgn * digits_value(digits)>>)

\* the float with integer digits ip and (zero-stripped) fraction digits fr:
\* val is <<mantissa, decimals>>, the value being mantissa / 10^decimals
float_value(c, sgn, ip, fr) ==
    Ret(c, <<sgn * (digits_value(ip) * pow10(Len(fr)) + digits_value(fr)),
             Len(fr)>>)

\* float(buff.decode('utf-8'))
to_float(c, sgn, ip, fp) ==
    IF ip = <<>> /\ fp = <<>> THEN Raise(c, "ValueError")
    ELSE float_value(c, sgn, ip, strip_zeros(fp))

\* __parse_number after the first digit run ip
number_after_int(c, sgn, ip) ==
    IF c.cur = POINT
    THEN Then(advance(c),
              LAMBDA b : Then(digit_run(b.c, <<>>),
                              LAMBDA d : to_float(d.c, sgn, ip, d.val)))
    ELSE to_int(c, sgn, ip)

\* __parse_number after the optional sign
number_digits(c, sgn) ==
    Then(digit_run(c, <<>>), LAMBDA d : number_after_int(d.c, sgn, d.val))

\* Lexer.__parse_number
parse_number(c) ==
    IF c.cur = PLUS \/ c.cur = MINUS
    THEN Then(advance(c),
              LAMBDA a : number_digits(a.c, IF c.cur = MINUS THEN -1 ELSE 1))
    ELSE number_digits(c, 1)

\* the check that follows a CARRIAGE_RETURN after b"stream"
stream_line_feed(c) ==
    IF c.cur # LINE_FEED THEN raise_lexer_error(c) ELSE Ret(c, <<c.pos>>)

\* the stream branch of __next__ after b"stream" was matched: val is <<streamPos>>
stream_branch(c) ==
    IF c.cur = CARRIAGE_RETURN
    THEN Then(advance(c), LAMBDA a : stream_line_feed(a.c))
    ELSE Ret(c, <<c.pos>>)

\* the lexeme of a parser's result r (None when it raised)
WithLex(r, kind) ==
    [c |-> r.c, exc |-> r.exc, errpos |-> r.errpos,
     lex |-> IF r.exc = "none" THEN Lexeme(kind, r.val) ELSE None]

number_lexeme(r) == WithLex(r, IF Len(r.val) = 2 THEN "real" ELSE "int")

\* PDFSingleton(self.__current); self.__advance()
singleton(c) == Then(advance(c), LAMBDA a : Ret(a.c, <<c.cur>>))

\* the last branches of __next__ in the other order: SINGLETONS tested first
singleton_before_keyword(c, k) ==
    IF c.cur \in SINGLETONS THEN WithLex(singleton(c), "single")
    ELSE IF k.exc # "none" THEN WithLex(k, "None")
    ELSE IF k.val # <<>> THEN WithLex(k, "kw")
    ELSE WithLex(raise_lexer_error(c), "None")

\* the branches of __next__ from elif self.__match_keyword() on
keyword_or_singleton(c, k) ==
    IF k.exc # "none" THEN WithLex(k, "None")
    ELSE IF k.val # <<>> THEN WithLex(k, "kw")
    ELSE IF c.cur \in SINGLETONS THEN WithLex(singleton(c), "single")
    ELSE WithLex(raise_lexer_error(c), "None")

\* elif self.__parse_literal(b"stream"), s being its result
literal_stream(c, s) ==
    IF s.exc # "none" THEN WithLex(s, "None")
    ELSE IF s.val # <<>> THEN WithLex(stream_branch(s.c), "stream")
    ELSE keyword_or_singleton(c, match_keyword(c))

\* elif self.__parse_literal(b"false"), f being its result
literal_false(c, f) ==
    IF f.exc # "none" THEN WithLex(f, "None")
    ELSE IF f.val # <<>> THEN WithLex(Ret(f.c, <<0>>), "bool")
    ELSE literal_stream(c, parse_literal(c, LIT_stream))

\* elif self.__parse_literal(b"true"), t being its result
literal_true(c, t) ==
    IF t.exc # "none" THEN WithLex(t, "None")
    ELSE IF t.val # <<>> THEN WithLex(Ret(t.c, <<1>>), "bool")
    ELSE literal_false(c, parse_literal(c, LIT_false))

\* the dispatch of __next__ on the lookahead, blanks having been removed
dispatch(c) ==
    IF c.cur = OPEN_PARENTHESIS
    THEN WithLex(parse_string_literal(c), "str")
    ELSE IF c.cur = OPEN_ANGLE_BRACKET /\ peek(c, 1) # OPEN_ANGLE_BRACKET
    THEN WithLex(parse_hexadecimal_string(c), "hex")
    ELSE IF c.cur = FORWARD_SLASH
    THEN WithLex(parse_name(c), "name")
    ELSE IF is_digit(c.cur) \/ c.cur \in {PLUS, MINUS, POINT}
    THEN number_lexeme(parse_number(c))
    ELSE literal_true(c, parse_literal(c, LIT_true))

\* __next__ after self.__remove_blanks() gave rb
after_blanks(rb) ==
    IF rb.exc # "none" THEN WithLex(rb, "None") ELSE dispatch(rb.c)

\* Lexer.__next__ below the push-back test: the tokenizer proper
tokenize(c) == after_blanks(remove_blanks(c))

(***************************************************************************)
(* The public operations of Lexer, as functions of the lexer's fields      *)
(* L = [pos, current, ended, currentLexeme, lexemesBuffer, movesHistory].  *)
(* Each returns the fields it leaves (also when it raises), the exception, *)
(* the lexeme, integer or bytes it returns.                                *)
(***************************************************************************)
Fields(c, cl, lb, mh) ==
    [pos |-> c.pos, current |-> c.cur, ended |-> c.ended,
     currentLexeme |-> cl, lexemesBuffer |-> lb, movesHistory |-> mh]

CursorOf(L) == Cursor(L.pos, L.current, L.ended)

\* the fields of L with the cursor replaced by c
WithCursor(L, c) ==
    Fields(c, L.currentLexeme, L.lexemesBuffer, L.movesHistory)

Outcome(L, exc, lex, n, data) ==
    [L |-> L, exc |-> exc, lex |-> lex, n |-> n, data |-> data]

\* Then for operations: an exception raised by o ends the call
ThenOp(o, F(_)) == IF o.exc # "none" THEN o ELSE F(o)

\* self.__advance() inside an operation, the cursor having been set to c
advance_op(L, c) == Outcome(WithCursor(L, advance(c).c), advance(c).exc,
                            None, -1, <<>>)

\* __next__ with a pending lexeme, taking the oldest: self.__lexemesBuffer.pop(0)
next_pending_oldest(L) ==
    Outcome([L EXCEPT !.currentLexeme = L.lexemesBuffer[1],
                      !.lexemesBuffer = Tail(L.lexemesBuffer)],
            "none", L.lexemesBuffer[1], -1, <<>>)

\* __next__ with a pending lexeme: self.__lexemesBuffer.pop()
next_pending(L) ==
    Outcome([L EXCEPT !.currentLexeme = L.lexemesBuffer[Len(L.lexemesBuffer)],
                      !.lexemesBuffer = SubSeq(L.lexemesBuffer, 1,
                                               Len(L.lexemesBuffer) - 1)],
            "none", L.lexemesBuffer[Len(L.lexemesBuffer)], -1, <<>>)

\* __next__ answering the end of the buffer with the null lexeme, not StopIteration
next_tokenized_none_at_end(L, t) ==
    Outcome(Fields(t.c, IF t.exc = "none" THEN t.lex ELSE L.currentLexeme,
                   L.lexemesBuffer, L.movesHistory),
            IF t.exc = "StopIteration" THEN "none" ELSE t.exc,
            t.lex, t.errpos, <<>>)

\* __next__ without one, t being the tokenizer's result
next_tokenized(L, t) ==
    Outcome(Fields(t.c, IF t.exc = "none" THEN t.lex ELSE L.currentLexeme,
                   L.lexemesBuffer, L.movesHistory),
            t.exc, t.lex, t.errpos, <<>>)

\* Lexer.__next__
next(L) ==
    IF Len(L.lexemesBuffer) > 0 THEN next_pending(L)
    ELSE next_tokenized(L, tokenize(CursorOf(L)))

\* Lexer.current_lexeme (the property)
current_lexeme(L) ==
    IF L.ended THEN Outcome(L, "StopIteration", None, -1, <<>>)
    ELSE Outcome(L, "none", L.currentLexeme, -1, <<>>)

\* move_at_position after previousLexeme was read
move_seek(L, pos_, previousLexeme) ==
    ThenOp(advance_op([L EXCEPT !.movesHistory =
                                  Append(L.movesHistory,
                                         <<previousLexeme, L.pos>>)],
                      Cursor(Seek(L.pos, pos_, 0), L.current, L.ended)),
           LAMBDA o : next(o.L))

\* Lexer.move_at_position
move_at_position(L, pos_) ==
    ThenOp(current_lexeme(L), LAMBDA g : move_seek(L, pos_, g.lex))

\* move_back after prevLex, prevPos = self.__movesHistory.pop()
move_back_to(L, prevLex, prevPos) ==
    advance_op([L EXCEPT !.currentLexeme = prevLex,
                         !.movesHistory = SubSeq(L.movesHistory, 1,
                                                 Len(L.movesHistory) - 1)],
               Cursor(Seek(L.pos, prevPos - 1, 0), L.current, L.ended))

\* move_back without the empty-history error: the call is a no-op then
move_back_unchecked(L) ==
    IF Len(L.movesHistory) = 0 THEN Outcome(L, "none", None, -1, <<>>)
    ELSE move_back_to(L, L.movesHistory[Len(L.movesHistory)][1],
                      L.movesHistory[Len(L.movesHistory)][2])

\* Lexer.move_back
move_back(L) ==
    IF Len(L.movesHistory) = 0 THEN Outcome(L, "Exception", None, -1, <<>>)
    ELSE move_back_to(L, L.movesHistory[Len(L.movesHistory)][1],
                      L.movesHistory[Len(L.movesHistory)][2])

\* put_back with a single slot: the pending lexeme is overwritten
put_back_single_slot(L, cur, lexeme) ==
    Outcome([L EXCEPT !.lexemesBuffer = <<lexeme>>,
                      !.currentLexeme = cur],
            "none", None, -1, <<>>)

\* Lexer.put_back
put_back(L, cur, lexeme) ==
    Outcome([L EXCEPT !.lexemesBuffer = Append(L.lexemesBuffer, lexeme),
                      !.currentLexeme = cur],
            "none", None, -1, <<>>)

\* read_stream: self.__source.seek(oldPos, 0); return data
read_stream_return(L, oldPos, data) ==
    Outcome([L EXCEPT !.pos = Seek(L.pos, oldPos, 0)], "none", None, -1, data)

\* read_stream: if self.__current == LINE_FEED: self.__advance()
read_stream_line_feed(L) ==
    IF L.current = LINE_FEED THEN advance_op(L, CursorOf(L))
    ELSE Outcome(L, "none", None, -1, <<>>)

\* read_stream after data = self.__source.read(length) returned r
read_stream_data(L, oldPos, r) ==
    ThenOp(advance_op(L, Cursor(r.pos, L.current, L.ended)),
           LAMBDA a : ThenOp(read_stream_line_feed(a.L),
                             LAMBDA b : read_stream_return(b.L, oldPos,
                                                           r.data)))

\* the closure read_stream(length) built by __next__ with origin streamPos
read_stream(L, streamPos, len) ==
    read_stream_data(L, L.pos, Read(Seek(L.pos, streamPos, 0), len))

\* get_context as a call: n is errorPosition, data the window
get_context_result(L, g) ==
    Outcome([L EXCEPT !.pos = g.pos], "none", None, g.errorPosition, g.context)

get_context_call(L) == get_context_result(L, get_context(L.pos))

CRLF == {CARRIAGE_RETURN, LINE_FEED}

RECURSIVE reverse(_)
reverse(s) == IF s = <<>> THEN <<>> ELSE Append(reverse(Tail(s)), Head(s))

\* the inner while of seekable_rfind; st = [count, buff, pos, c]
\* (c is the byte last read, -1 before any read)
RECURSIVE rfind_inner(_)
\* the body of the inner while, c being the byte read and p the position after
rfind_byte(st, c, p) ==
    IF c \notin CRLF
    THEN rfind_inner([count |-> st.count + 1, buff |-> Append(st.buff, c),
                      pos |-> p, c |-> c])
    ELSE [count |-> st.count + 1, buff |-> st.buff, pos |-> p, c |-> c]

rfind_inner(st) ==
    IF st.count <= length
    THEN rfind_byte(st, Read(Seek(st.pos, length - st.count, 0), 1).data[1],
                    Read(Seek(st.pos, length - st.count, 0), 1).pos)
    ELSE st

\* the outer while of seekable_rfind.  found is "yes" when the loop is left
\* with buff = revKeyword, "no" at return -1, and "hang" when an iteration
\* leaves count, buff and c as it found them, so that the loop never ends.
RECURSIVE rfind_outer(_, _)
\* the end of one iteration, s1 being the state the inner while left
rfind_iteration(st, s1, revKeyword) ==
    IF s1.count > length /\ s1.c \notin CRLF
    THEN [st |-> s1, found |-> "no"]
    ELSE IF s1.buff = st.buff /\ s1.count = st.count /\ s1.buff # revKeyword
    THEN [st |-> s1, found |-> "hang"]
    ELSE rfind_outer(s1, revKeyword)

rfind_outer(st, revKeyword) ==
    IF st.buff = revKeyword THEN [st |-> st, found |-> "yes"]
    ELSE rfind_iteration(st, rfind_inner([st EXCEPT !.buff = <<>>]),
                         revKeyword)

\* seekable_rfind returning where the cursor is after self.__next__()
rfind_next_tell(x, pos_) ==
    IF x.exc # "none" THEN x ELSE Outcome(x.L, "none", x.lex, x.L.pos, <<>>)

\* seekable_rfind: self.__next__(); return pos
rfind_next(x, pos_) ==
    IF x.exc # "none" THEN x ELSE Outcome(x.L, "none", x.lex, pos_, <<>>)

\* the end of seekable_rfind, f being what the scan found
rfind_result(L, f) ==
    IF f.found = "hang"
    THEN Outcome([L EXCEPT !.pos = f.st.pos], "hang", None, -1, <<>>)
    ELSE IF f.found = "no"
    THEN Outcome([L EXCEPT !.pos = f.st.pos], "none", None, -1, <<>>)
    ELSE ThenOp(advance_op(L, Cursor(f.st.pos, L.current, L.ended)),
                LAMBDA a : rfind_next(next(a.L), f.st.pos))

\* Lexer.seekable_rfind
seekable_rfind(L, keyword) ==
    rfind_result(L, rfind_outer([count |-> 1, buff |-> <<>>, pos |-> L.pos,
                                 c |-> -1], reverse(keyword)))

\* Lexer.__init__ over the bytes object source (a fresh Seekable): the fields
\* after construction, or IndexError when read(1) returns b'' and [0] fails
init(source) ==
    IF Len(source) = 0
    THEN Outcome([pos |-> 0, current |-> -1, ended |-> FALSE,
                  currentLexeme |-> None, lexemesBuffer |-> <<>>,
                  movesHistory |-> <<>>], "IndexError", None, -1, <<>>)
    ELSE Outcome([pos |-> 1, current |-> source[1],
                  ended |-> FALSE, currentLexeme |-> None,
                  lexemesBuffer |-> <<>>, movesHistory |-> <<>>],
                 "none", None, -1, <<>>)

(***************************************************************************)
(* The inputs.  TestBuffers are the buffers of the unit tests and of the   *)
(* specification's examples, shortened; TokBuffers are all concatenations  *)
(* of at most MaxFrags fragments of PDF syntax.                            *)
(***************************************************************************)
TestBuffers ==
    { <<>>,                                               \* b""
      <<49, 32, 50>>,                                     \* 1 2
      <<49, 50>>,                                         \* 12
      KW_null \o <<32, 110>>,                             \* null n
      <<40, 97, 41, 49>>,                                 \* (a)1
      <<32, 37, 32>>,                                     \* blank, comment
      <<126>>,                                            \* ~
      LIT_stream \o <<10, 49, 50>>,                       \* stream\n12
      LIT_stream \o <<13, 10, 65, 10, 82>>,               \* stream\r\nA\nR
      <<49, 10>> \o KW_obj \o <<10, 49, 50, 10, 37, 69>>, \* 1\nobj\n12\n%E
      KW_obj \o <<10, 49, 50>>,                           \* obj\n12
      <<10, 49>> }                                        \* \n1

Fragments ==
    { <<0>>, <<9>>, <<10>>, <<12>>, <<13>>, <<32>>, <<37>>, <<37, 65>>,
      <<49>>, <<43>>, <<46>>, <<40>>, <<41>>, <<47>>, <<60>>, <<62>>,
      <<126>>, <<65>>, <<110>>, <<102>>, <<82>>, <<91>>,
      KW_dictopen, KW_dictclose, KW_endobj, KW_obj, KW_trailer, KW_xref,
      KW_null, KW_startxref, KW_endstream, LIT_true, LIT_false, LIT_stream }

RECURSIVE Concats(_)
Concats(n) ==
    IF n = 0 THEN { <<>> }
    ELSE Concats(n - 1) \cup { b \o f : b \in Concats(n - 1), f \in Fragments }

TokBuffers == Concats(MaxFrags)

\* the keywords handed to seekable_rfind
RfindKeywords == { KW_obj, <<110>> }

\* the lexemes a caller hands to put_back besides the current one
PutBackLexemes == { Lexeme("int", <<7>>), Lexeme("kw", KW_obj) }

(***************************************************************************)
(* The state machine: one lexer over one buffer, driven by its caller.     *)
(***************************************************************************)
Snapshot ==
    [pos |-> pos, current |-> current, ended |-> ended,
     currentLexeme |-> currentLexeme, lexemesBuffer |-> lexemesBuffer,
     movesHistory |-> movesHistory]

Call(op, arg, argLex, argCur, o) ==
    [op |-> op, arg |-> arg, argLex |-> argLex, argCur |-> argCur,
     exc |-> o.exc, lex |-> o.lex, n |-> o.n, data |-> o.data]

\* the state after Lexer(source), o being what __init__ did
Constructed(o) ==
    /\ pos = o.L.pos
    /\ current = o.L.current
    /\ ended = o.L.ended
    /\ currentLexeme = o.L.currentLexeme
    /\ lexemesBuffer = o.L.lexemesBuffer
    /\ movesHistory = o.L.movesHistory
    /\ alive = (o.exc = "none")
    /\ last = Call("init", <<>>, None, None, o)
    /\ prev = Call("none", <<>>, None, None, o)
    /\ pre = o.L
    /\ pre2 = o.L
    /\ readers = {}
    /\ steps = 0

Init == src \in TestBuffers /\ Constructed(init(src))

InitTok == src \in TokBuffers /\ Constructed(init(src))

\* the effect of one call with outcome o on the variables
Apply(op, arg, argLex, argCur, o) ==
    /\ alive
    /\ steps < MaxSteps
    /\ pos' = o.L.pos
    /\ current' = o.L.current
    /\ ended' = o.L.ended
    /\ currentLexeme' = o.L.currentLexeme
    /\ lexemesBuffer' = o.L.lexemesBuffer
    /\ movesHistory' = o.L.movesHistory
    /\ readers' = IF o.exc = "none" /\ o.lex.kind = "stream"
                  THEN readers \cup {o.lex.value[1]} ELSE readers
    /\ alive' = (o.exc # "hang")
    /\ last' = Call(op, arg, argLex, argCur, o)
    /\ prev' = last
    /\ pre' = Snapshot
    /\ pre2' = pre
    /\ steps' = steps + 1
    /\ UNCHANGED src

Pull == Apply("next", <<>>, None, None, next(Snapshot))

MoveAtPosition ==
    \E p \in -1..(length + 1) :
        /\ Len(movesHistory) < MaxHistory
        /\ Apply("move_at_position", <<p>>, None, None,
                 move_at_position(Snapshot, p))

MoveBack == Apply("move_back", <<>>, None, None, move_back(Snapshot))

PutBack ==
    \E x \in PutBackLexemes \cup {currentLexeme} :
        /\ Len(lexemesBuffer) < MaxPending
        /\ Apply("put_back", <<>>, x, currentLexeme,
                 put_back(Snapshot, currentLexeme, x))

ReadStream ==
    \E origin \in readers, len \in 0..MaxReadLen :
        Apply("read_stream", <<origin, len>>, None, None,
              read_stream(Snapshot, origin, len))

SeekableRfind ==
    \E k \in RfindKeywords :
        Apply("seekable_rfind", k, None, None, seekable_rfind(Snapshot, k))

GetContext == Apply("get_context", <<>>, None, None, get_context_call(Snapshot))

CurrentLexeme ==
    Apply("current_lexeme", <<>>, None, None, current_lexeme(Snapshot))

Next ==
    \/ Pull
    \/ MoveAtPosition
    \/ MoveBack
    \/ PutBack
    \/ ReadStream
    \/ SeekableRfind
    \/ GetContext
    \/ CurrentLexeme

\* every operation, over the test buffers
Spec == Init /\ [][Next]_vars

\* the tokenizer alone (successive pulls), over every generated buffer
SpecTok == InitTok /\ [][Pull]_vars

(***************************************************************************)
(* String literals: ( body ) for every body over the bytes that steer      *)
(* __parse_string_literal (backslash, parentheses, digits).                *)
(***************************************************************************)
StrAlphabet == { BACK_SLASH, OPEN_PARENTHESIS, CLOSE_PARENTHESIS, 48, 51, 53 }

RECURSIVE Bodies(_)
Bodies(n) ==
    IF n = 0 THEN { <<>> }
    ELSE Bodies(n - 1) \cup { Append(b, x) : b \in Bodies(n - 1), x \in StrAlphabet }

StrBuffers ==
    { <<OPEN_PARENTHESIS>> \o b \o <<CLOSE_PARENTHESIS>> : b \in Bodies(MaxStrLen) }

InitStr == src \in StrBuffers /\ Constructed(init(src))

\* successive pulls over the string literals
SpecStr == InitStr /\ [][Pull]_vars

(***************************************************************************)
(* A Seekable alone over a buffer, driven by read and seek calls: pos is   *)
(* its position (tell), the lexer's fields are not in use.                 *)
(***************************************************************************)
SeekBuffers == { <<>>, <<65>>, <<65, 66, 67>> }

\* the fields of a lexer that does not exist, at source position p
NoLexer(p) ==
    [pos |-> p, current |-> -1, ended |-> FALSE, currentLexeme |-> None,
     lexemesBuffer |-> <<>>, movesHistory |-> <<>>]

InitSeek == src \in SeekBuffers /\ Constructed(Outcome(NoLexer(0), "none", None, -1, <<>>))

\* one call on the Seekable that leaves position p and returns data
SeekableCall(op, arg, p, data) ==
    /\ steps < MaxSteps
    /\ pos' = p
    /\ last' = Call(op, arg, None, None, Outcome(NoLexer(p), "none", None, -1, data))
    /\ prev' = last
    /\ pre' = Snapshot
    /\ pre2' = pre
    /\ steps' = steps + 1
    /\ UNCHANGED <<src, current, ended, currentLexeme, lexemesBuffer,
                   movesHistory, alive, readers>>

SeekableRead ==
    \E n \in -1..(MaxReadLen + 1) :
        SeekableCall("read", <<n>>, Read(pos, n).pos, Read(pos, n).data)

SeekableSeek ==
    \E off \in -MaxSeekOff..MaxSeekOff, whence \in 0..3 :
        SeekableCall("seek", <<off, whence>>, Seek(pos, off, whence), <<>>)

NextSeek == SeekableRead \/ SeekableSeek

\* the Seekable alone
SpecSeek == InitSeek /\ [][NextSeek]_vars

(***************************************************************************)
(* Vocabulary of the properties                                            *)
(***************************************************************************)
\* the bytes of b from the 1-based index i on begin with w
StartsWith(b, i, w) ==
    i + Len(w) - 1 <= Len(b) /\ SubSeq(b, i, i + Len(w) - 1) = w

\* a CR/LF-delimited line of b begins at the 1-based index i and equals k
IsLineAt(b, i, k) ==
    /\ i = 1 \/ b[i - 1] \in CRLF
    /\ StartsWith(b, i, k)
    /\ i + Len(k) - 1 = Len(b) \/ b[i + Len(k)] \in CRLF

HasLine(b, k) == \E i \in 1..Len(b) : IsLineAt(b, i, k)

\* the last call was seekable_rfind and it returned a position
RfindSucceeded(call) ==
    call.op = "seekable_rfind" /\ call.exc = "none" /\ call.n # -1

\* b is made of blank bytes and %-comments only (inComment: inside a comment)
RECURSIVE OnlyBlanksComments(_, _)
OnlyBlanksComments(b, inComment) ==
    IF b = <<>> THEN TRUE
    ELSE IF inComment THEN OnlyBlanksComments(Tail(b), Head(b) # LINE_FEED)
    ELSE IF Head(b) = PERCENTAGE THEN OnlyBlanksComments(Tail(b), TRUE)
    ELSE Head(b) \in {0, 9, 10, 12, 13, 32} /\ OnlyBlanksComments(Tail(b), FALSE)

\* the closed keyword vocabulary and the boolean literals, with their lexemes
Vocabulary ==
    { <<KEYWORDS[i], Lexeme("kw", KEYWORDS[i])>> : i \in 1..Len(KEYWORDS) }
    \cup { <<LIT_true, Lexeme("bool", <<1>>)>>,
           <<LIT_false, Lexeme("bool", <<0>>)>> }

\* the lexeme the line k tokenizes to, for the keywords handed to seekable_rfind
AnchorLexeme(k) ==
    IF k = KW_obj THEN Lexeme("kw", KW_obj) ELSE Lexeme("single", k)

(***************************************************************************)
(* C1.  move_at_position(p) followed immediately by move_back() restores   *)
(* the current lexeme, the cursor position and the lookahead byte to what  *)
(* they were before move_at_position, also when tokenization from p runs   *)
(* up to the end of the buffer.  (The claim as stated; the code breaks it: *)
(* once ended is set, move_back's __advance raises StopIteration.)         *)
(***************************************************************************)
C1_MoveThenBackRestores ==
    (/\ last.op = "move_back"
     /\ prev.op = "move_at_position"
     /\ prev.arg[1] \in 0..length
     /\ prev.exc = "none")
        => /\ currentLexeme = pre2.currentLexeme
           /\ pos = pre2.pos
           /\ current = pre2.current

(***************************************************************************)
(* C2.  The deferred stream reader called with length L, the L bytes being *)
(* in the buffer, returns exactly the L bytes at its origin and leaves the *)
(* cursor position where it was, from any state, also after end of input.  *)
(* (The claim as stated; after end of input the reader raises              *)
(* StopIteration and leaves the cursor behind the bytes it read.)          *)
(***************************************************************************)
C2_DeferredReadExact ==
    (/\ last.op = "read_stream"
     /\ last.arg[2] >= 1
     /\ last.arg[1] + last.arg[2] <= length)
        => /\ last.exc = "none"
           /\ last.data = SubSeq(src, last.arg[1] + 1, last.arg[1] + last.arg[2])
           /\ pos = pre.pos

(***************************************************************************)
(* C3.  After put_back(current, x) the very next pull returns x without    *)
(* running the tokenizer: cursor position, lookahead byte and ended flag   *)
(* are unchanged by that pull, also when the lexer has reached the end.    *)
(***************************************************************************)
C3_PutBackReplayed ==
    (last.op = "next" /\ prev.op = "put_back")
        => /\ last.exc = "none"
           /\ last.lex = prev.argLex
           /\ currentLexeme = prev.argLex
           /\ pos = pre.pos
           /\ current = pre.current
           /\ ended = pre.ended

C3_Witness ==
    /\ last.op = "next" /\ prev.op = "put_back"
    /\ pre.ended
    /\ last.lex = prev.argLex

(***************************************************************************)
(* C4.  As stated: the push-back buffer holds at most one pending lexeme.  *)
(***************************************************************************)
C4_SingleSlot == Len(lexemesBuffer) <= 1

(***************************************************************************)
(* C4, amended.  The push-back buffer is a last-in-first-out list: each    *)
(* put_back appends its lexeme to the pending ones, a pull with a pending  *)
(* lexeme removes and returns the most recent one, and a pull with none    *)
(* leaves the buffer empty.                                                *)
(***************************************************************************)
C4_PendingList ==
    /\ last.op = "put_back"
           => lexemesBuffer = Append(pre.lexemesBuffer, last.argLex)
    /\ (last.op = "next" /\ pre.lexemesBuffer # <<>>)
           => /\ lexemesBuffer = SubSeq(pre.lexemesBuffer, 1,
                                        Len(pre.lexemesBuffer) - 1)
              /\ last.lex = pre.lexemesBuffer[Len(pre.lexemesBuffer)]
    /\ (last.op = "next" /\ pre.lexemesBuffer = <<>>) => lexemesBuffer = <<>>

C4_Witness == last.op = "put_back" /\ Len(lexemesBuffer) = 2

(***************************************************************************)
(* C5.  move_back() with an empty move history raises an error and leaves  *)
(* current lexeme, cursor position, lookahead byte, history and push-back  *)
(* buffer unchanged.                                                       *)
(***************************************************************************)
C5_MoveBackEmptyHistory ==
    (last.op = "move_back" /\ pre.movesHistory = <<>>)
        => /\ last.exc = "Exception"
           /\ Snapshot = pre

C5_Witness ==
    /\ last.op = "move_back" /\ pre.movesHistory = <<>>
    /\ last.exc = "Exception"
    /\ pre.lexemesBuffer # <<>>

(***************************************************************************)
(* C6.  Over a buffer made only of blank bytes and %-comments (the last    *)
(* comment closed by a line feed or not) every pull ends with              *)
(* StopIteration and no lexeme is ever emitted.                            *)
(***************************************************************************)
C6_BlanksOnlyEndOfSequence ==
    (OnlyBlanksComments(src, FALSE) /\ last.op = "next")
        => /\ last.exc = "StopIteration"
           /\ last.lex = None
           /\ currentLexeme = None

C6_Witness ==
    /\ OnlyBlanksComments(src, FALSE) /\ last.op = "next"
    /\ \E i \in 1..Len(src) : src[i] = PERCENTAGE
    /\ src[Len(src)] # LINE_FEED
    /\ last.exc = "StopIteration"

(***************************************************************************)
(* C7.  Constructing a lexer over the empty buffer succeeds, with the      *)
(* lookahead the blank sentinel and ended set, and the first pull yields   *)
(* StopIteration.  (The claim as stated; the code raises IndexError in     *)
(* __init__.)                                                              *)
(***************************************************************************)
C7_EmptyBufferConstructs ==
    src = <<>>
        => /\ alive
           /\ current = SPACE
           /\ ended
           /\ last.op = "next" => last.exc = "StopIteration"

(***************************************************************************)
(* C8.  When the lookahead starts a word of the keyword vocabulary or one  *)
(* of true/false, the pull returns that keyword or boolean and consumes    *)
(* all its bytes; a singleton n, f or R is emitted only where no such word *)
(* starts.                                                                 *)
(***************************************************************************)
C8_KeywordPriority ==
    (/\ last.op = "next"
     /\ pre.lexemesBuffer = <<>>
     /\ ~pre.ended
     /\ pre.current = src[pre.pos])
        => /\ \A w \in Vocabulary :
                 StartsWith(src, pre.pos, w[1])
                     => /\ last.exc = "none"
                        /\ last.lex = w[2]
                        /\ currentLexeme = w[2]
                        /\ pos = Min(pre.pos + Len(w[1]), length)
                        /\ ended = (pre.pos + Len(w[1]) - 1 = length)
                        /\ ~ended => current = src[pos]
           /\ (/\ last.exc = "none"
               /\ last.lex.kind = "single"
               /\ last.lex.value[1] \in {INUSE_ENTRY_KEYWORD, FREE_ENTRY_KEYWORD,
                                         KEYWORD_REFERENCE}
               /\ pre.current = last.lex.value[1])
                  => ~ \E w \in Vocabulary : StartsWith(src, pre.pos, w[1])

C8_Witness ==
    /\ last.op = "next" /\ prev.op = "next"
    /\ prev.lex = Lexeme("single", <<INUSE_ENTRY_KEYWORD>>)
    /\ pre.current = INUSE_ENTRY_KEYWORD
    /\ last.lex = Lexeme("kw", KW_null)

(***************************************************************************)
(* C9.  As stated: the position a successful seekable_rfind(keyword)       *)
(* returns lies immediately after the matched line.                        *)
(***************************************************************************)
C9_PositionAfterLine ==
    RfindSucceeded(last)
        => /\ last.n >= Len(last.arg)
           /\ SubSeq(src, last.n - Len(last.arg) + 1, last.n) = last.arg

(***************************************************************************)
(* C9, amended.  The position a successful seekable_rfind(keyword) returns *)
(* is the offset of the first byte of the last line equal to the keyword   *)
(* that a CR or LF precedes; with no lexeme pending the call itself has    *)
(* tokenized that line (it is the current lexeme and the cursor is behind  *)
(* it), so the token following the anchor line is what the next pull       *)
(* returns: 12 over 1\nobj\n12\n%E.                                        *)
(***************************************************************************)
C9_PositionAtLineStart ==
    /\ RfindSucceeded(last)
           => /\ last.n >= 1
              /\ IsLineAt(src, last.n + 1, last.arg)
              /\ \A i \in (last.n + 2)..Len(src) : ~IsLineAt(src, i, last.arg)
              /\ pre.lexemesBuffer = <<>>
                     => /\ last.lex = AnchorLexeme(last.arg)
                        /\ currentLexeme = AnchorLexeme(last.arg)
                        /\ pos = Min(last.n + Len(last.arg) + 1, length)
    /\ (/\ last.op = "next"
        /\ RfindSucceeded(prev)
        /\ pre2.lexemesBuffer = <<>>
        /\ src = <<49, 10>> \o KW_obj \o <<10, 49, 50, 10, 37, 69>>)
           => last.lex = Lexeme("int", <<12>>)

C9_Witness ==
    /\ last.op = "next"
    /\ RfindSucceeded(prev)
    /\ prev.n = 2
    /\ prev.lex = Lexeme("kw", KW_obj)
    /\ last.lex = Lexeme("int", <<12>>)

(***************************************************************************)
(* C10.  Whenever the buffer holds a CR/LF-delimited line equal to the     *)
(* keyword, a seekable_rfind(keyword) that returns does not return -1,     *)
(* also when the only such line is the first line of the buffer.  (The     *)
(* claim as stated; the code returns -1 for a match on the first line.)    *)
(***************************************************************************)
C10_LineIsFound ==
    (/\ last.op = "seekable_rfind"
     /\ last.exc = "none"
     /\ HasLine(src, last.arg))
        => last.n # -1

(***************************************************************************)
(* C11.  For every buffer and every non-empty keyword no line of the       *)
(* buffer equals, seekable_rfind terminates and returns -1, also when the  *)
(* first byte of the buffer is CR or LF.  (The claim as stated; with a CR  *)
(* or LF as first byte and no matching line the outer loop of the code     *)
(* never ends.)                                                            *)
(***************************************************************************)
C11_NotFoundTerminates ==
    (/\ last.op = "seekable_rfind"
     /\ last.arg # <<>>
     /\ ~HasLine(src, last.arg))
        => /\ last.exc = "none"
           /\ last.n = -1

\* the target of seek(off, whence) from position p, clamped into the buffer
ClampedTarget(p, off, whence) ==
    Max(0, Min(CASE whence = 0 -> off
                 [] whence = 1 -> p + off
                 [] OTHER -> Len(src) + off, Len(src)))

(***************************************************************************)
(* C12.  After any sequence of Seekable.read(n) and Seekable.seek(off,     *)
(* whence) calls the position is within 0..length; seek never fails and    *)
(* leaves the clamped target; read returns the bytes between the old and   *)
(* the new position, n of them when that many remain and only the          *)
(* remaining ones when n asks for more.                                    *)
(***************************************************************************)
C12_SeekableClamped ==
    /\ 0 <= pos /\ pos <= Len(src)
    /\ last.op = "seek"
           => /\ last.exc = "none"
              /\ last.arg[2] \in 0..2
                     => pos = ClampedTarget(pre.pos, last.arg[1], last.arg[2])
    /\ last.op = "read"
           => /\ last.exc = "none"
              /\ last.data = SubSeq(src, pre.pos + 1, pos)
              /\ (1 <= last.arg[1] /\ last.arg[1] <= Len(src) - pre.pos)
                     => Len(last.data) = last.arg[1]
              /\ last.arg[1] > Len(src) - pre.pos => pos = Len(src)

C12_Witness ==
    /\ last.op = "read" /\ prev.op = "seek"
    /\ prev.arg = <<-2, 2>>
    /\ pre.pos = Len(src) - 2
    /\ last.arg[1] = 3
    /\ Len(last.data) = 2

\* the input that remains at the cursor of the fields F (lookahead included)
Remaining(F) ==
    IF F.ended THEN <<>> ELSE SubSeq(src, F.pos, Len(src))

(***************************************************************************)
(* C13.  A pull raises StopIteration only when the input remaining at the  *)
(* cursor is made of blanks and comments; a hex string or string literal   *)
(* the buffer ends in the middle of gives a lexical error.  (The claim as  *)
(* stated; the code raises StopIteration from __advance inside the         *)
(* unfinished lexeme.)                                                     *)
(***************************************************************************)
C13_EndOnlyAfterBlanks ==
    (last.op = "next" /\ last.exc = "StopIteration")
        => OnlyBlanksComments(Remaining(pre), FALSE)

(***************************************************************************)
(* C14.  Every pull ends in a lexeme, in StopIteration or in a             *)
(* PDFLexicalError: input no lexeme can be formed from, such as a sign or  *)
(* a point without digits, is a lexical error and no other failure.  (The  *)
(* claim as stated; the code lets the ValueError of int()/float() and the  *)
(* UnicodeDecodeError of decode('ascii') escape.)                          *)
(***************************************************************************)
C14_ThreeOutcomes ==
    last.op = "next"
        => last.exc \in {"none", "StopIteration", "PDFLexicalError"}

(***************************************************************************)
(* C15.  Once a pull has raised a lexical error, the next pull made        *)
(* without a reposition fails too: no lexeme is emitted after an error.    *)
(* (The claim as stated; the code keeps no trace of the error and the next *)
(* pull tokenizes from the offending byte, which may start a lexeme.)      *)
(***************************************************************************)
C15_NoLexemeAfterError ==
    (/\ last.op = "next"
     /\ prev.op = "next"
     /\ prev.exc = "PDFLexicalError")
        => last.exc # "none"

\* the bytes that end a name: outside ! .. ~, or a delimiter
EndsName(x) ==
    \/ x < 33 \/ x > 126
    \/ x \in {OPEN_PARENTHESIS, CLOSE_PARENTHESIS, OPEN_ANGLE_BRACKET,
              CLOSE_ANGLE_BRACKET, OPEN_SQUARE_BRACKET, CLOSE_SQUARE_BRACKET,
              FORWARD_SLASH}

\* the 1-based index of the first byte behind index i that ends a name
\* (Len(src) + 1 when there is none)
NameEnd(i) ==
    CHOOSE j \in (i + 1)..(Len(src) + 1) :
        /\ j = Len(src) + 1 \/ EndsName(src[j])
        /\ \A k \in (i + 1)..(j - 1) : ~EndsName(src[k])

(***************************************************************************)
(* C16.  A name ends at the first byte outside ! .. ~ or at a delimiter:   *)
(* a pull at a / returns the name made of the bytes before that byte and   *)
(* leaves it as the lookahead.  (The claim as stated; the code takes every *)
(* byte in ! .. ~ into the name, delimiters included.)                     *)
(***************************************************************************)
C16_NameEndsAtDelimiter ==
    (/\ last.op = "next"
     /\ pre.lexemesBuffer = <<>>
     /\ ~pre.ended
     /\ pre.current = FORWARD_SLASH
     /\ src[pre.pos] = FORWARD_SLASH
     /\ \A k \in pre.pos..Len(src) : src[k] # NUMBER_SIGN)
        => /\ last.exc = "none"
           /\ last.lex = Lexeme("name", SubSeq(src, pre.pos + 1,
                                               NameEnd(pre.pos) - 1))
           /\ NameEnd(pre.pos) <= Len(src)
                  => pos = NameEnd(pre.pos) /\ current = src[NameEnd(pre.pos)]

\* the buffer is ( \ ds ) for a run ds of one to four digits
IsOctalProbe(b) ==
    /\ Len(b) \in 4..7
    /\ b[1] = OPEN_PARENTHESIS /\ b[2] = BACK_SLASH
    /\ b[Len(b)] = CLOSE_PARENTHESIS
    /\ \A i \in 3..(Len(b) - 1) : b[i] \in 48..57

\* the value of the digits d[1..n] read most significant first in base 8
RECURSIVE OctalValue(_, _)
OctalValue(d, n) ==
    IF n = 0 THEN 0 ELSE OctalValue(d, n - 1) * 8 + (d[n] - 48)

(***************************************************************************)
(* C17.  In a string literal a backslash followed by digits consumes at    *)
(* most three of them and contributes exactly one character, a fourth      *)
(* digit being kept as an ordinary character, for every run of digits.     *)
(* (The claim as stated; the code raises ValueError when the three digits  *)
(* read in base 8 exceed 255.)                                             *)
(***************************************************************************)
C17_OctalEscapeOneByte ==
    (last.op = "next" /\ prev.op = "init" /\ IsOctalProbe(src))
        => /\ last.exc = "none"
           /\ last.lex.kind = "str"
           /\ Len(last.lex.value) = 1 + Max(0, Len(src) - 6)
           /\ Len(src) = 7 => last.lex.value[2] = src[6]
           /\ OctalValue(SubSeq(src, 3, Len(src) - 1), Min(3, Len(src) - 3)) < 128
                  => last.lex.value[1] =
                         OctalValue(SubSeq(src, 3, Len(src) - 1),
                                    Min(3, Len(src) - 3))

\* the 1-based index of the ) that closes the literal, scanning from index i
\* at nesting depth d and stepping over the byte behind a backslash; 0 when
\* the buffer ends first
RECURSIVE CloseIndex(_, _)
CloseIndex(i, d) ==
    IF i > Len(src) THEN 0
    ELSE IF src[i] = BACK_SLASH THEN CloseIndex(i + 2, d)
    ELSE IF src[i] = OPEN_PARENTHESIS THEN CloseIndex(i + 1, d + 1)
    ELSE IF src[i] = CLOSE_PARENTHESIS
    THEN IF d = 1 THEN i ELSE CloseIndex(i + 1, d - 1)
    ELSE CloseIndex(i + 1, d)

\* there is a backslash among src[i..j]
HasBackslash(i, j) == \E k \in i..j : src[k] = BACK_SLASH

\* the cursor is behind the byte at the 1-based index j
CursorBehind(j) ==
    /\ pos = Min(j + 1, Len(src))
    /\ ended = (j = Len(src))
    /\ ~ended => current = src[j + 1]

(***************************************************************************)
(* C18.  A pull at a ( scans with a nesting depth that starts at 1, rises  *)
(* on each unescaped (, falls on each unescaped ) and is unchanged by a    *)
(* backslash-escaped parenthesis.  The literal ends at the first byte      *)
(* where the depth reaches 0: the pull then leaves the byte behind that )  *)
(* as the lookahead, and a body without backslashes is returned byte for   *)
(* byte (inner parentheses included, outer pair excluded).  No lexeme is   *)
(* returned when the depth never reaches 0, and the only failure of a      *)
(* closed literal is the ValueError of an octal escape above 255.          *)
(***************************************************************************)
C18_BalancedParentheses ==
    (/\ last.op = "next"
     /\ pre.lexemesBuffer = <<>>
     /\ ~pre.ended
     /\ pre.current = OPEN_PARENTHESIS
     /\ src[pre.pos] = OPEN_PARENTHESIS)
        => /\ CloseIndex(pre.pos + 1, 1) = 0 => last.exc # "none"
           /\ CloseIndex(pre.pos + 1, 1) # 0
                  => /\ last.exc = "none"
                         => last.lex.kind = "str"
                            /\ CursorBehind(CloseIndex(pre.pos + 1, 1))
                     /\ last.exc # "none"
                         => last.exc = "ValueError"
                            /\ HasBackslash(pre.pos + 1,
                                            CloseIndex(pre.pos + 1, 1) - 1)
                     /\ ~HasBackslash(pre.pos + 1, CloseIndex(pre.pos + 1, 1) - 1)
                         => last.lex =
                                Lexeme("str",
                                       SubSeq(src, pre.pos + 1,
                                              CloseIndex(pre.pos + 1, 1) - 1))

C18_Witness ==
    /\ src = <<40, 40, 92, 41, 41, 41, 41>>
    /\ last.op = "next" /\ prev.op = "init"
    /\ last.lex = Lexeme("str", <<40, 41, 41>>)
    /\ pos = 7 /\ current = CLOSE_PARENTHESIS /\ ~ended

(***************************************************************************)
(* C19.  After a pull that returned a lexeme (next or move_at_position),   *)
(* reading current_lexeme returns that lexeme, also when the final byte of *)
(* the lexeme was the last byte of the buffer.  (The claim as stated; the  *)
(* property raises StopIteration once ended is set, which the pull of a    *)
(* lexeme that ends the buffer does.)                                      *)
(***************************************************************************)
C19_CurrentLexemeAfterPull ==
    (/\ last.op = "current_lexeme"
     /\ prev.op \in {"next", "move_at_position"}
     /\ prev.exc = "none")
        => /\ last.exc = "none"
           /\ last.lex = prev.lex

\* the 1-based index of the first byte at or behind index i that is neither
\* a blank nor inside a %-comment; 0 when there is none
RECURSIVE FirstSignificant(_, _)
FirstSignificant(i, inComment) ==
    IF i > Len(src) THEN 0
    ELSE IF inComment THEN FirstSignificant(i + 1, src[i] # LINE_FEED)
    ELSE IF src[i] = PERCENTAGE THEN FirstSignificant(i + 1, TRUE)
    ELSE IF src[i] \in {0, 9, 10, 12, 13, 32} THEN FirstSignificant(i + 1, FALSE)
    ELSE i

\* no rule of the tokenizer accepts what starts at the 1-based index k
Unrecognized(k) ==
    /\ src[k] \notin {OPEN_PARENTHESIS, OPEN_ANGLE_BRACKET, FORWARD_SLASH,
                      PLUS, MINUS, POINT} \cup (48..57)
    /\ src[k] \notin {OPEN_CURLY_BRACKET, CLOSE_CURLY_BRAKET,
                      OPEN_SQUARE_BRACKET, CLOSE_SQUARE_BRACKET,
                      INUSE_ENTRY_KEYWORD, FREE_ENTRY_KEYWORD, KEYWORD_REFERENCE}
    /\ ~StartsWith(src, k, LIT_stream)
    /\ \A w \in Vocabulary : ~StartsWith(src, k, w[1])

(***************************************************************************)
(* C20.  When a pull meets, behind blanks and comments, a byte no rule     *)
(* accepts, it raises PDFLexicalError and the position in the message is   *)
(* the cursor position at the error, which is the 0-based index of the     *)
(* offending byte plus one; the cursor stays on that byte.                 *)
(***************************************************************************)
C20_ErrorPosition ==
    (/\ last.op = "next"
     /\ pre.lexemesBuffer = <<>>
     /\ ~pre.ended
     /\ pre.current = src[pre.pos]
     /\ FirstSignificant(pre.pos, FALSE) # 0
     /\ Unrecognized(FirstSignificant(pre.pos, FALSE)))
        => /\ last.exc = "PDFLexicalError"
           /\ last.n = FirstSignificant(pre.pos, FALSE)
           /\ last.n = pos
           /\ current = src[pos]

C20_Witness ==
    /\ last.op = "next" /\ prev.op = "init"
    /\ src = <<32, 126>>
    /\ last.exc = "PDFLexicalError"
    /\ last.n = 2

\* where the context window of a cursor at position p starts
WindowStart(p) == Max(0, p - ContextSize \div 2)

(***************************************************************************)
(* C21.  get_context() called in any state returns the window that starts  *)
(* at max(0, P - C \div 2) and holds the at most C bytes from there (P the *)
(* cursor position, C the context size), and leaves position, lookahead,   *)
(* ended, current lexeme, history and push-back buffer as they were.       *)
(***************************************************************************)
C21_ContextWindowFrame ==
    last.op = "get_context"
        => /\ last.exc = "none"
           /\ last.n = pre.pos
           /\ last.data = SubSeq(src, WindowStart(pre.pos) + 1,
                                 Min(WindowStart(pre.pos) + ContextSize, Len(src)))
           /\ Len(last.data) <= ContextSize
           /\ Snapshot = pre

C21_Witness ==
    /\ last.op = "get_context"
    /\ WindowStart(pre.pos) > 0
    /\ Len(last.data) = ContextSize
    /\ pre.lexemesBuffer # <<>>

(***************************************************************************)
(* C22.  In every state reached by calls on a constructed lexer: if ended  *)
(* is false the lookahead is the buffer byte at index position - 1, and if *)
(* ended is true the lookahead is the blank sentinel and the position is   *)
(* the buffer length.  (The claim as stated; the deferred reader, a        *)
(* seekable_rfind that finds nothing and a move_back after the end leave   *)
(* the source position and the lookahead out of step.)                     *)
(***************************************************************************)
C22_LookaheadInStep ==
    alive
        => IF ended
           THEN current = SPACE /\ pos = Len(src)
           ELSE pos >= 1 /\ current = src[pos]

(***************************************************************************)
(* C23.  A call of a deferred stream reader does not change what the lexer *)
(* produces next: the pull that follows the call has the outcome (lexeme,  *)
(* StopIteration or error) the pull would have had in the state before the *)
(* call.  (The claim as stated; the reader replaces the lookahead byte and *)
(* may set ended.)                                                         *)
(***************************************************************************)
C23_ReaderKeepsNextPull ==
    (last.op = "next" /\ prev.op = "read_stream")
        => /\ last.exc = next(pre2).exc
           /\ last.lex = next(pre2).lex

(***************************************************************************)
(* C24.  The tokenizer is restartable by explicit seek: once a pull has    *)
(* reached the end of the buffer, move_at_position(p) with p before the    *)
(* end of the buffer behaves as it does on a lexer that has not ended: it  *)
(* has the outcome of the same call with the ended condition cleared, and  *)
(* it does not signal the end of the sequence because of the earlier end.  *)
(* (The claim as stated; the code never clears ended.)                     *)
(***************************************************************************)
C24_RestartAfterEnd ==
    (/\ last.op = "move_at_position"
     /\ pre.ended
     /\ pre.lexemesBuffer = <<>>
     /\ last.arg[1] \in 0..(Len(src) - 1))
        => /\ last.exc = move_at_position([pre EXCEPT !.ended = FALSE],
                                          last.arg[1]).exc
           /\ last.lex = move_at_position([pre EXCEPT !.ended = FALSE],
                                          last.arg[1]).lex

(***************************************************************************)
(* C25.  Without repositioning or push-back, pulling moves forward and is  *)
(* finite: a pull that returns a lexeme never moves the cursor backwards,  *)
(* and it either moves it forwards or consumes the end of the buffer (it   *)
(* sets ended, which was not set before); so when every pull made so far   *)
(* returned a lexeme, no more pulls were made than the buffer has bytes;   *)
(* and a pull that follows a pull that signalled the end of the sequence   *)
(* signals it again.                                                       *)
(***************************************************************************)
RECURSIVE AllReturned(_, _)
AllReturned(L, k) ==
    IF k = 0 THEN TRUE
    ELSE next(L).exc = "none" /\ AllReturned(next(L).L, k - 1)

C25_ForwardAndFinite ==
    /\ (last.op = "next" /\ last.exc = "none")
           => /\ pos >= pre.pos
              /\ pos > pre.pos \/ (ended /\ ~pre.ended)
    /\ AllReturned(init(src).L, steps) => steps <= Len(src)
    /\ (last.op = "next" /\ prev.op = "next" /\ prev.exc = "StopIteration")
           => last.exc = "StopIteration"

\* C25 as stated: a pull that returns a lexeme leaves the position strictly
\* greater than it was before the pull
C25_StrictlyForward ==
    (last.op = "next" /\ last.exc = "none") => pos > pre.pos

\* a buffer of N bytes has given N lexemes, the last one without moving the
\* position: its only byte was the lookahead already
C25_Witness ==
    /\ last.op = "next" /\ last.exc = "none"
    /\ pos = pre.pos /\ ended
    /\ steps = Len(src)
    /\ steps >= 2

(***************************************************************************)
(* C26.  The move history is a LIFO stack changed only by navigation: each *)
(* move_at_position call pushes exactly one snapshot (the current lexeme   *)
(* and the position before the call), each successful move_back pops       *)
(* exactly the most recently pushed one and makes its lexeme the current   *)
(* one, and every other call leaves the history unchanged.  (The claim as  *)
(* stated; a move_at_position made after the end pushes nothing.)          *)
(***************************************************************************)
Top(h) == h[Len(h)]

Pop(h) == SubSeq(h, 1, Len(h) - 1)

C26_HistoryLifo ==
    /\ last.op = "move_at_position"
           => movesHistory = Append(pre.movesHistory,
                                    <<pre.currentLexeme, pre.pos>>)
    /\ (last.op = "move_back" /\ last.exc = "none")
           => /\ pre.movesHistory # <<>>
              /\ movesHistory = Pop(pre.movesHistory)
              /\ currentLexeme = Top(pre.movesHistory)[1]
    /\ last.op \in {"next", "put_back", "seekable_rfind", "get_context",
                    "read_stream", "current_lexeme"}
           => movesHistory = pre.movesHistory

(***************************************************************************)
(* C27.  In every state where the lexer has not ended, states with a       *)
(* pending pushed-back lexeme included, move_at_position(p) has the        *)
(* outcome of tokenizing the buffer from byte offset p, and a successful   *)
(* seekable_rfind leaves as current lexeme the one tokenized from the      *)
(* position it returns.  (The claim as stated; with a lexeme pending both  *)
(* calls hand out the pending lexeme.)                                     *)
(***************************************************************************)
\* what a lexer primed at byte offset p tokenizes first
TokenizedAt(p) ==
    tokenize(advance(Cursor(Seek(0, p, 0), SPACE, FALSE)).c)

C27_TokenizesFromTarget ==
    /\ (/\ last.op = "move_at_position"
        /\ ~pre.ended
        /\ last.arg[1] \in 0..(Len(src) - 1))
           => /\ last.exc = TokenizedAt(last.arg[1]).exc
              /\ last.lex = TokenizedAt(last.arg[1]).lex
    /\ (RfindSucceeded(last) /\ ~pre.ended)
           => currentLexeme = TokenizedAt(last.n).lex

(***************************************************************************)
(* C28.  The first pull over a buffer that begins with the stream keyword: *)
(* a CR not immediately followed by LF raises a lexical error; otherwise   *)
(* the pull returns a deferred reader whose origin is the offset of the    *)
(* first byte after the optional line terminator: the byte after the LF    *)
(* for stream LF and stream CR LF, and the byte immediately after the      *)
(* keyword when no line terminator follows it.  (The claim as stated; the  *)
(* origin is always one byte behind the lookahead.)                        *)
(***************************************************************************)
\* the pull returned a deferred reader with this origin
ReaderAt(call, origin) ==
    call.exc = "none" /\ call.lex = Lexeme("stream", <<origin>>)

C28_StreamOrigin ==
    (/\ steps = 1 /\ last.op = "next"
     /\ StartsWith(src, 1, LIT_stream)
     /\ Len(src) > Len(LIT_stream))
        => IF src[7] = LINE_FEED
           THEN ReaderAt(last, 7)
           ELSE IF src[7] = CARRIAGE_RETURN
           THEN IF Len(src) >= 8 /\ src[8] = LINE_FEED
                THEN ReaderAt(last, 8)
                ELSE last.exc = "PDFLexicalError"
           ELSE ReaderAt(last, 6)

=============================================================================
